---- MODULE Spec2Model ----
(***************************************************************************)
(* Session event correlation (src/src/utils/sessionProcessor.ts) and flow  *)
(* reconstruction (src/src/components/session-replay/SessionFlowGraph.tsx) *)
(* of the agent-monitoring dashboard, as a state machine over one session  *)
(* transcript.                                                             *)
(*                                                                         *)
(* Representation.  A timestamp string is modelled by the epoch            *)
(* milliseconds `new Date(s).getTime()` yields for it; a string Date       *)
(* cannot parse is modelled by NaN.  Optional string fields that are       *)
(* absent hold Undefined; an absent message_index holds NoIndex.           *)
(* Sequences are 1-based: JavaScript index k is position k + 1.            *)
(***************************************************************************)
EXTENDS Integers, Sequences, FiniteSets, TLC

\* ---------------------------------------------------------------- values
Undefined == "undefined"
NaN == -1
NoIndex == -2

\* ---------------------------------------------------- program constants
HANDOFF_LEAD_MS == 100
TOOL_AFTER_HANDOFF_MS == 50
TOOL_SPACING_MS == 10
VIOLATION_OFFSET_MS == 1
CACHE_DURATION == 300000

\* ------------------------------------------------------------ variables
VARIABLES
    sessionData,      \* the transcript: chat_history, agent_responses, detections
    agentNameCache,   \* agentNameService.ts: agent id -> [name, cached_at]
    now,              \* the wall clock read by Date.now()
    pc,               \* "fetched" | "processed" | "rendered"
    result,           \* what processSessionData returned: [threw, events]
    flow,             \* SessionFlowGraph's sessionFlow memo
    previous,         \* the output of the invocation before, <<>> when none
    currentEventIndex, \* the dashboard's cursor into the event list
    flowState,        \* MultiAgentFlow's sessionFlowState memo, <<>> before it
    initializer       \* AgentNameInitializer: initialized, initPromise, its runs

vars == <<sessionData, agentNameCache, now, pc, result, flow, previous,
          currentEventIndex, flowState, initializer>>

\* ------------------------------------------------------- Date arithmetic
\* new Date(s).getTime(): the parsed milliseconds, NaN for an unparseable string
DateGetTime(s) == IF s = NaN THEN NaN ELSE s

\* a + b on JavaScript numbers: NaN is absorbing
NumAdd(a, b) == IF a = NaN \/ b = NaN THEN NaN ELSE a + b

\* new Date(t).toISOString(): throws RangeError on an invalid date
ToISOString(t) == [threw |-> t = NaN, value |-> t]

\* a || b on optional strings
OrElse(a, b) == IF a /= Undefined THEN a ELSE b

\* ------------------------------------------------------ agent name service
\* AgentNameService.getCachedAgentName
getCachedAgentName(cache, clock, agentId) ==
    IF agentId \in DOMAIN cache /\ clock - cache[agentId].cached_at < CACHE_DURATION
    THEN cache[agentId].name
    ELSE Undefined

\* getCleanAgentName on the agent ids of the model: the marker substrings
\* first, then strip "agent_", strip "_agent_<hex>", underscores to spaces,
\* title case
getCleanAgentName(agentId) ==
    CASE agentId = "a1" -> "A1"
      [] agentId = "a2" -> "A2"
      [] agentId = "agent_web_search_agent_1f" -> "Web Search Agent"
      [] agentId = "Web Search Agent" -> "Web Search Agent"
      [] agentId = "Customer Service Agent" -> "Customer Service Agent"
      [] OTHER -> agentId

\* getCachedAgentName(id) || getCleanAgentName(id)
AgentDisplayName(cache, clock, agentId) ==
    OrElse(getCachedAgentName(cache, clock, agentId), getCleanAgentName(agentId))

\* --------------------------------------------------- AgentNameInitializer
\* Promises are numbered by the run of performInitialization that made
\* them; 0 stands for null, and for the promise of a call that started
\* nothing.  A run is [stage, failed, pending]: it awaits the agents list
\* ("list"), then the names of the listed agents not yet cached ("names",
\* `pending`), and its promise is then fulfilled ("fulfilled"), whether
\* the fetch failed or not.

\* this.performInitialization() up to its first await: the agents list is
\* requested
performInitialization(self) ==
    [self EXCEPT !.runs = Append(@, [stage |-> "list", failed |-> FALSE,
                                     pending |-> {}])]

\* initialize() that starts a run whatever initPromise and initialized hold
initializeUnguarded(self) ==
    LET started == performInitialization(self)
    IN [started EXCEPT !.initPromise = Len(started.runs),
                       !.lastCall = [inFlight |-> self.initPromise,
                                     returned |-> Len(started.runs)]]

\* AgentNameInitializer.initialize(): the promise in flight is returned;
\* else nothing happens once initialized; else a run starts and its
\* promise is kept in initPromise
initialize(self) ==
    IF self.initPromise /= 0
    THEN [self EXCEPT !.lastCall = [inFlight |-> self.initPromise,
                                    returned |-> self.initPromise]]
    ELSE IF self.initialized
         THEN [self EXCEPT !.lastCall = [inFlight |-> 0, returned |-> 0]]
         ELSE LET started == performInitialization(self)
              IN [started EXCEPT !.initPromise = Len(started.runs),
                                 !.lastCall = [inFlight |-> 0,
                                               returned |-> Len(started.runs)]]

\* the runs that have not fulfilled their promise
InFlight(self) == {k \in 1..Len(self.runs) : self.runs[k].stage /= "fulfilled"}

\* ------------------------------------------------------ response lookup
\* the last of the positions `hits`, 0 when there is none: a Map filled by
\* forEach keeps the last value set under a key
LastSet(hits) ==
    IF hits = {} THEN 0 ELSE CHOOSE k \in hits : \A j \in hits : j <= k

\* responsesByRequestId.get(key): position in agent_responses, 0 for undefined
responsesByRequestId(responses, key) ==
    IF key = Undefined THEN 0
    ELSE LastSet({k \in 1..Len(responses) : responses[k].request_id = key})

\* responsesByTraceId.get(key)
responsesByTraceId(responses, key) ==
    IF key = Undefined THEN 0
    ELSE LastSet({k \in 1..Len(responses) : responses[k].trace_id = key})

\* a lookup that falls back on the last response of the transcript
LastResponse(responses, message) == Len(responses)

\* the response a user message resolves to: request_id first, then the
\* response whose trace_id is the message_id; 0 when there is none
ResolveResponse(responses, message) ==
    LET byReq == responsesByRequestId(responses, message.request_id) IN
    IF byReq /= 0 THEN byReq
    ELSE IF message.message_id /= Undefined
         THEN responsesByTraceId(responses, message.message_id)
         ELSE 0

\* ------------------------------------------------------ detection lookup
detectionByMessageId(detections, key) ==
    IF key = Undefined THEN <<>>
    ELSE LET Hit(d) == d.message_id = key IN SelectSeq(detections, Hit)

\* a request_id map that answers every key with every keyed detection
AnyRequestId(detections, key) ==
    LET Hit(d) == d.request_id /= Undefined IN SelectSeq(detections, Hit)

detectionByRequestId(detections, key) ==
    IF key = Undefined THEN <<>>
    ELSE LET Hit(d) == d.request_id = key IN SelectSeq(detections, Hit)

detectionMap(detections, index) ==
    LET Hit(d) == d.message_index /= NoIndex /\ d.message_index = index
    IN SelectSeq(detections, Hit)

detectionByTraceId(detections, key) ==
    IF key = Undefined THEN <<>>
    ELSE LET Hit(d) == d.trace_id = key IN SelectSeq(detections, Hit)

\* the predicate of the duplicate filter: same id, or same (message_id, detection_type)
SameFinding(d, e) ==
    d.id = e.id \/ (d.message_id = e.message_id /\ d.detection_type = e.detection_type)

\* self.findIndex(d => same finding as detection): the first such position,
\* 0 when there is none
FindIndex(self, detection) ==
    LET hits == {k \in 1..Len(self) : SameFinding(self[k], detection)}
    IN IF hits = {} THEN 0 ELSE CHOOSE k \in hits : \A j \in hits : k <= j

\* the duplicate filter left out
KeepDuplicates(self) == self

RECURSIVE FilterFirst(_, _)
FilterFirst(self, k) ==
    IF k > Len(self) THEN <<>>
    ELSE (IF FindIndex(self, self[k]) = k THEN <<self[k]>> ELSE <<>>)
            \o FilterFirst(self, k + 1)

\* .filter((detection, index, self) => index === self.findIndex(...))
RemoveDuplicates(self) == FilterFirst(self, 1)

\* the detections of the user message at JavaScript index `index`
userDetections(detections, message, index) ==
    RemoveDuplicates(
        detectionByMessageId(detections, message.message_id)
        \o detectionByRequestId(detections, message.request_id)
        \o detectionMap(detections, index)
        \o detectionByTraceId(detections, OrElse(message.request_id, message.message_id)))

\* the detections of the response resolved by the user message at `index`
responseDetections(detections, agentResponse, index) ==
    RemoveDuplicates(
        detectionByMessageId(detections, agentResponse.response_id)
        \o detectionByRequestId(detections, agentResponse.request_id)
        \o detectionMap(detections, index + 1)
        \o detectionByTraceId(detections, agentResponse.response_id))

\* ------------------------------------------------------------- events
\* ProcessedEvent.  The free text of a message or response (content,
\* reason, parameters, result, context, matches, severity, duration) is
\* carried through unchanged by the code and is left out of the model.
NoDetails ==
    [from_agent |-> Undefined, from_agent_id |-> Undefined,
     to_agent |-> Undefined, to_agent_id |-> Undefined,
     tool_name |-> Undefined, detection_type |-> Undefined,
     violation_id |-> Undefined, handoff_occurred |-> FALSE]

\* an AgentResponse without handoff_details
NoHandoffDetails == [from_agent |-> Undefined, to_agent |-> Undefined]

\* events.push({... type: 'user_message' ...})
UserMessageEvent(detections, message, index) ==
    [id |-> message.message_id,
     timestamp |-> message.timestamp,
     type |-> "user_message",
     agent |-> "User",
     agent_id |-> Undefined,
     content |-> Undefined,
     detections |-> userDetections(detections, message, index),
     request_id |-> message.request_id,
     details |-> NoDetails]

\* responseTime - 100
HandoffTime(agentResponse) ==
    NumAdd(DateGetTime(agentResponse.timestamp), 0 - HANDOFF_LEAD_MS)

EmitsHandoff(agentResponse) ==
    agentResponse.handoff_occurred /\ agentResponse.handoff_details /= NoHandoffDetails

\* events.push({... type: 'handoff' ...}); the timestamp is still the
\* ToISOString outcome here
HandoffEvent(cache, clock, agentResponse) ==
    [id |-> agentResponse.response_id \o "-handoff",
     timestamp |-> ToISOString(HandoffTime(agentResponse)),
     type |-> "handoff",
     agent |-> AgentDisplayName(cache, clock, agentResponse.handoff_details.from_agent),
     agent_id |-> Undefined,
     content |-> "Handoff to "
                   \o AgentDisplayName(cache, clock, agentResponse.handoff_details.to_agent),
     detections |-> <<>>,
     request_id |-> Undefined,
     details |-> [NoDetails EXCEPT
                    !.from_agent = agentResponse.handoff_details.from_agent,
                    !.from_agent_id = agentResponse.handoff_details.from_agent,
                    !.to_agent = agentResponse.handoff_details.to_agent,
                    !.to_agent_id = agentResponse.handoff_details.to_agent]]

\* the timestamp of the tool call at JavaScript index toolIndex, as a
\* ToISOString outcome (tool.timestamp is copied, never converted)
ToolTimestamp(agentResponse, toolIndex) ==
    IF agentResponse.handoff_occurred
    THEN ToISOString(NumAdd(HandoffTime(agentResponse),
                            TOOL_AFTER_HANDOFF_MS + toolIndex * TOOL_SPACING_MS))
    ELSE [threw |-> FALSE, value |-> agentResponse.tools_used[toolIndex + 1].timestamp]

\* events.push({... type: 'tool_call' ...})
ToolCallEvent(cache, clock, agentResponse, toolIndex) ==
    [id |-> agentResponse.response_id \o "-tool-" \o ToString(toolIndex),
     timestamp |-> ToolTimestamp(agentResponse, toolIndex),
     type |-> "tool_call",
     agent |-> AgentDisplayName(cache, clock,
                                OrElse(agentResponse.agent_id, agentResponse.agent)),
     agent_id |-> OrElse(agentResponse.agent_id, agentResponse.agent),
     content |-> "Using " \o agentResponse.tools_used[toolIndex + 1].tool_name,
     detections |-> <<>>,
     request_id |-> Undefined,
     details |-> [NoDetails EXCEPT
                    !.tool_name = agentResponse.tools_used[toolIndex + 1].tool_name]]

\* events.push({... type: 'agent_response' ...})
AgentResponseEvent(cache, clock, detections, agentResponse, index) ==
    [id |-> agentResponse.response_id,
     timestamp |-> agentResponse.timestamp,
     type |-> "agent_response",
     agent |-> AgentDisplayName(cache, clock,
                                OrElse(agentResponse.agent_id, agentResponse.agent)),
     agent_id |-> OrElse(agentResponse.agent_id, agentResponse.agent),
     content |-> Undefined,
     detections |-> responseDetections(detections, agentResponse, index),
     request_id |-> agentResponse.request_id,
     details |-> [NoDetails EXCEPT !.handoff_occurred = agentResponse.handoff_occurred]]

\* a sequence of events whose timestamps are ToISOString outcomes, as
\* [threw, events]: threw when one of the conversions threw
Settle(pending) ==
    [threw |-> \E k \in 1..Len(pending) : pending[k].timestamp.threw,
     events |-> [k \in 1..Len(pending) |->
                    [pending[k] EXCEPT !.timestamp = pending[k].timestamp.value]]]

\* a forEach body that pushes a message event whatever the role
EveryRoleTurn(data, cache, clock, index) ==
    [threw |-> FALSE,
     events |-> <<UserMessageEvent(data.detections,
                                   data.chat_history[index + 1], index)>>]

\* the body of chatHistory.forEach for the message at JavaScript index
\* `index`: what it pushes, or that it threw
TurnEvents(data, cache, clock, index) ==
    LET message == data.chat_history[index + 1]
        found == ResolveResponse(data.agent_responses, message)
        agentResponse == data.agent_responses[found]
        synthesized ==
            Settle((IF EmitsHandoff(agentResponse)
                    THEN <<HandoffEvent(cache, clock, agentResponse)>> ELSE <<>>)
                   \o [k \in 1..Len(agentResponse.tools_used) |->
                          ToolCallEvent(cache, clock, agentResponse, k - 1)])
    IN IF message.role /= "user" THEN [threw |-> FALSE, events |-> <<>>]
       ELSE IF found = 0
       THEN [threw |-> FALSE,
             events |-> <<UserMessageEvent(data.detections, message, index)>>]
       ELSE [threw |-> synthesized.threw,
             events |-> <<UserMessageEvent(data.detections, message, index)>>
                        \o synthesized.events
                        \o <<AgentResponseEvent(cache, clock, data.detections,
                                                agentResponse, index)>>]

RECURSIVE BaseEventsFrom(_, _, _, _)
\* chatHistory.forEach from JavaScript index `index` on
BaseEventsFrom(data, cache, clock, index) ==
    IF index >= Len(data.chat_history) THEN [threw |-> FALSE, events |-> <<>>]
    ELSE LET turn == TurnEvents(data, cache, clock, index)
             rest == BaseEventsFrom(data, cache, clock, index + 1)
         IN IF turn.threw \/ rest.threw THEN [threw |-> TRUE, events |-> <<>>]
            ELSE [threw |-> FALSE, events |-> turn.events \o rest.events]

\* the violation event of the detection at JavaScript index detectionIndex
\* of `event`, its timestamp a ToISOString outcome
ViolationEvent(event, detectionIndex) ==
    [id |-> event.id \o "-violation-" \o ToString(detectionIndex),
     timestamp |-> ToISOString(NumAdd(DateGetTime(event.timestamp),
                                      VIOLATION_OFFSET_MS + detectionIndex)),
     type |-> "violation",
     agent |-> "Security Monitor",
     agent_id |-> Undefined,
     content |-> event.detections[detectionIndex + 1].detection_type,
     detections |-> <<>>,
     request_id |-> Undefined,
     details |-> [NoDetails EXCEPT
                    !.detection_type = event.detections[detectionIndex + 1].detection_type,
                    !.violation_id = event.detections[detectionIndex + 1].id]]

RECURSIVE InsertViolations(_, _)
\* events.forEach: each event, then one violation event per detection
InsertViolations(events, k) ==
    IF k > Len(events) THEN [threw |-> FALSE, events |-> <<>>]
    ELSE LET own == Settle([j \in 1..Len(events[k].detections) |->
                               ViolationEvent(events[k], j - 1)])
             rest == InsertViolations(events, k + 1)
         IN IF own.threw \/ rest.threw THEN [threw |-> TRUE, events |-> <<>>]
            ELSE [threw |-> FALSE, events |-> <<events[k]>> \o own.events \o rest.events]

eventsWithViolations(events) == InsertViolations(events, 1)

\* ---------------------------------------------------------------- sort
\* the comparator: new Date(a.timestamp).getTime() - new Date(b.timestamp).getTime();
\* sort reads a NaN result as +0
CompareByTime(a, b) ==
    LET ta == DateGetTime(a.timestamp)
        tb == DateGetTime(b.timestamp)
    IN IF ta = NaN \/ tb = NaN THEN 0 ELSE ta - tb

RECURSIVE InsertStable(_, _, _)
\* e placed into the sorted sequence behind every element not after it
InsertStable(sorted, e, k) ==
    IF k = 0 \/ CompareByTime(sorted[k], e) <= 0
    THEN SubSeq(sorted, 1, k) \o <<e>> \o SubSeq(sorted, k + 1, Len(sorted))
    ELSE InsertStable(sorted, e, k - 1)

RECURSIVE StableSort(_, _)
\* Array.prototype.sort with a consistent comparator: the stable order
StableSort(events, n) ==
    IF n = 0 THEN <<>>
    ELSE LET head == StableSort(events, n - 1)
         IN InsertStable(head, events[n], Len(head))

\* the final sort left out
SortSkipped(events) == events

SortByTimestamp(events) == StableSort(events, Len(events))

Permutation(events, p) == [k \in 1..Len(events) |-> events[p[k]]]

\* what eventsWithViolations.sort(...) can leave in the array.  With every
\* timestamp parseable the comparator is consistent and the result is the
\* stable order.  With an unparseable one the comparator is inconsistent
\* and ECMAScript leaves the order to the engine: any arrangement.
SortOutcomes(events) ==
    IF \A k \in 1..Len(events) : DateGetTime(events[k].timestamp) /= NaN
    THEN {SortByTimestamp(events)}
    ELSE {Permutation(events, p) :
            p \in {q \in [1..Len(events) -> 1..Len(events)] :
                     \A i, j \in 1..Len(events) : i /= j => q[i] /= q[j]}}

\* processSessionData up to the sort: [threw, events]
Correlate(data, cache, clock) ==
    LET base == BaseEventsFrom(data, cache, clock, 0)
    IN IF base.threw THEN base ELSE eventsWithViolations(base.events)

\* every value processSessionData can produce for `data`
processSessionData(data, cache, clock) ==
    LET unsorted == Correlate(data, cache, clock)
    IN IF unsorted.threw THEN {unsorted}
       ELSE {[threw |-> FALSE, events |-> sorted] : sorted \in SortOutcomes(unsorted.events)}

\* the timelineEvents processSessionData returns beside the events: one
\* marker per returned event, in the same order; x is the fraction
\* <<numerator, denominator>> of the percentage along the time axis
timelineEvents(events) ==
    LET startTime == IF Len(events) > 0 THEN DateGetTime(events[1].timestamp) ELSE 0
        endTime == IF Len(events) > 0
                   THEN DateGetTime(events[Len(events)].timestamp) ELSE 0
        totalDuration == endTime - startTime
    IN [k \in 1..Len(events) |->
           [id |-> events[k].id,
            timestamp |-> events[k].timestamp,
            type |-> events[k].type,
            agent |-> events[k].agent,
            x |-> IF totalDuration > 0
                  THEN <<(DateGetTime(events[k].timestamp) - startTime) * 100,
                         totalDuration>>
                  ELSE <<0, 1>>,
            hasViolations |-> Len(events[k].detections) > 0]]

\* ---------------------------------------------------- SessionFlowGraph
\* Map.set
MapSet(m, key, value) ==
    [x \in DOMAIN m \cup {key} |-> IF x = key THEN value ELSE m[x]]

\* the event list taken whole, violation events included
AllEvents(events) == events

\* events.filter(event => event.type !== 'violation')
nonViolationEvents(events) ==
    LET Keep(e) == e.type /= "violation" IN SelectSeq(events, Keep)

\* the key an event's agent resolves to: its agent_id, else the id mapped
\* to its display name, else the display name itself
ResolveAgentKey(displayNameToAgentId, event) ==
    IF event.agent_id /= Undefined THEN event.agent_id
    ELSE IF event.agent \in DOMAIN displayNameToAgentId
         THEN displayNameToAgentId[event.agent]
         ELSE event.agent

RECURSIVE FirstPass(_, _, _)
\* first pass, from position k: agentIdToDisplayName, displayNameToAgentId
\* and agentFirstResponse from the events that carry an agent_id
FirstPass(nve, k, acc) ==
    IF k > Len(nve) THEN acc
    ELSE LET event == nve[k]
             fresh == event.agent_id \notin DOMAIN acc.agentIdToDisplayName
             mapped ==
                 IF fresh
                 THEN [acc EXCEPT
                         !.agentIdToDisplayName = MapSet(@, event.agent_id, event.agent),
                         !.displayNameToAgentId = MapSet(@, event.agent, event.agent_id)]
                 ELSE acc
             tracked ==
                 IF event.type = "agent_response"
                    /\ event.agent_id \notin DOMAIN mapped.agentFirstResponse
                 THEN [mapped EXCEPT
                         !.agentFirstResponse = MapSet(@, event.agent_id, k - 1)]
                 ELSE mapped
         IN IF event.agent /= "User" /\ event.agent_id /= Undefined
            THEN FirstPass(nve, k + 1, tracked)
            ELSE FirstPass(nve, k + 1, acc)

\* addAgent: the first display name given for a key stays
addAgent(uniqueAgents, agentId, displayName) ==
    IF agentId \in DOMAIN uniqueAgents THEN uniqueAgents
    ELSE MapSet(uniqueAgents, agentId, displayName)

RECURSIVE SecondPass(_, _, _)
\* second pass, from position k: uniqueAgents, and agentFirstResponse
\* completed with the resolved keys
SecondPass(nve, k, acc) ==
    IF k > Len(nve) THEN acc
    ELSE LET event == nve[k]
             agentId == ResolveAgentKey(acc.displayNameToAgentId, event)
             regular ==
                 IF event.agent /= "User"
                 THEN [acc EXCEPT
                         !.uniqueAgents = addAgent(@, agentId, event.agent),
                         !.agentFirstResponse =
                             IF event.type = "agent_response" /\ agentId \notin DOMAIN @
                             THEN MapSet(@, agentId, k - 1) ELSE @]
                 ELSE acc
             isHandoff == event.type = "handoff"
             from ==
                 IF isHandoff /\ event.details.from_agent_id /= Undefined
                 THEN [regular EXCEPT
                         !.uniqueAgents =
                             addAgent(@, event.details.from_agent_id,
                                      OrElse(event.details.from_agent,
                                             event.details.from_agent_id))]
                 ELSE regular
             to ==
                 IF isHandoff /\ event.details.to_agent_id /= Undefined
                 THEN [from EXCEPT
                         !.uniqueAgents =
                             addAgent(@, event.details.to_agent_id,
                                      OrElse(event.details.to_agent,
                                             event.details.to_agent_id))]
                 ELSE from
         IN SecondPass(nve, k + 1, to)

\* the agent whose first agent_response has the largest index
LatestResponder(agentFirstResponse) ==
    IF DOMAIN agentFirstResponse = {} THEN Undefined
    ELSE CHOOSE a \in DOMAIN agentFirstResponse :
            \A b \in DOMAIN agentFirstResponse :
                agentFirstResponse[a] >= agentFirstResponse[b]

\* the agent whose first agent_response has the smallest index, or
\* Undefined (null) when no agent responded
PrimaryAgent(agentFirstResponse) ==
    IF DOMAIN agentFirstResponse = {} THEN Undefined
    ELSE CHOOSE a \in DOMAIN agentFirstResponse :
            \A b \in DOMAIN agentFirstResponse :
                agentFirstResponse[a] <= agentFirstResponse[b]

\* nonViolationEvents.slice(index + 1).find(e => e.type === 'agent_response'):
\* its position, 0 when there is none
NextResponse(nve, k) ==
    LET later == {j \in (k + 1)..Len(nve) : nve[j].type = "agent_response"}
    IN IF later = {} THEN 0 ELSE CHOOSE j \in later : \A i \in later : j <= i

RECURSIVE ThirdPass(_, _, _, _, _)
\* third pass, from position k: userInteractions, handoffs, tools, toolCalls
ThirdPass(nve, k, displayNameToAgentId, primaryAgent, acc) ==
    IF k > Len(nve) THEN acc
    ELSE LET event == nve[k]
             next == NextResponse(nve, k)
             key == ResolveAgentKey(displayNameToAgentId, event)
             step ==
                 CASE event.type = "user_message" ->
                        IF primaryAgent /= Undefined /\ event.agent /= "User"
                           /\ next /= 0
                           /\ ResolveAgentKey(displayNameToAgentId, nve[next]) = primaryAgent
                        THEN [acc EXCEPT !.userInteractions =
                                Append(@, [agent |-> primaryAgent, eventIndex |-> k - 1,
                                           type |-> "request"])]
                        ELSE acc
                   [] event.type = "agent_response" ->
                        IF key = primaryAgent
                        THEN [acc EXCEPT !.userInteractions =
                                Append(@, [agent |-> key, eventIndex |-> k - 1,
                                           type |-> "response"])]
                        ELSE acc
                   [] event.type = "handoff" ->
                        IF event.details.from_agent_id /= Undefined
                           /\ event.details.to_agent_id /= Undefined
                        THEN [acc EXCEPT !.handoffs =
                                Append(@, [from |-> event.details.from_agent_id,
                                           to |-> event.details.to_agent_id,
                                           eventIndex |-> k - 1])]
                        ELSE acc
                   [] event.type = "tool_call" ->
                        IF event.agent /= "User" /\ event.details.tool_name /= Undefined
                        THEN [acc EXCEPT
                                !.tools = MapSet(@, event.details.tool_name, key),
                                !.toolCalls =
                                    Append(@, [agent |-> key,
                                               tool |-> event.details.tool_name,
                                               eventIndex |-> k - 1])]
                        ELSE acc
                   [] OTHER -> acc
         IN ThirdPass(nve, k + 1, displayNameToAgentId, primaryAgent, step)

\* the sessionFlow memo of SessionFlowGraph, with the primaryAgent it used
sessionFlow(events) ==
    LET nve == nonViolationEvents(events)
        first == FirstPass(nve, 1, [agentIdToDisplayName |-> <<>>,
                                    displayNameToAgentId |-> <<>>,
                                    agentFirstResponse |-> <<>>])
        second == SecondPass(nve, 1, [displayNameToAgentId |-> first.displayNameToAgentId,
                                      agentFirstResponse |-> first.agentFirstResponse,
                                      uniqueAgents |-> <<>>])
        primaryAgent == PrimaryAgent(second.agentFirstResponse)
        third == ThirdPass(nve, 1, first.displayNameToAgentId, primaryAgent,
                           [tools |-> <<>>, handoffs |-> <<>>,
                            userInteractions |-> <<>>, toolCalls |-> <<>>])
    IN [agents |-> [x \in {"User"} \cup DOMAIN second.uniqueAgents |->
                       IF x \in DOMAIN second.uniqueAgents
                       THEN second.uniqueAgents[x] ELSE "User"],
        tools |-> third.tools,
        handoffs |-> third.handoffs,
        userInteractions |-> third.userInteractions,
        toolCalls |-> third.toolCalls,
        primaryAgent |-> primaryAgent]

\* the positions of userInteractions that open a new `User-<agent>` key
\* (processedUserInteractions)
FirstInteractions(userInteractions) ==
    {k \in 1..Len(userInteractions) :
        \A j \in 1..(k - 1) : userInteractions[j].agent /= userInteractions[k].agent}

\* the edges the graph memo creates from the flow, without their styling:
\* one per user-interaction key, one per handoff, one per tool call
FlowEdges(f) ==
    {[id |-> "user-" \o f.userInteractions[k].agent, type |-> "user_interaction",
      source |-> "User", target |-> f.userInteractions[k].agent] :
        k \in FirstInteractions(f.userInteractions)}
    \cup {[id |-> "handoff-" \o ToString(k - 1), type |-> "handoff",
           source |-> f.handoffs[k].from, target |-> f.handoffs[k].to] :
            k \in 1..Len(f.handoffs)}
    \cup {[id |-> "tool-" \o ToString(k - 1), type |-> "tool_call",
           source |-> f.toolCalls[k].agent, target |-> f.toolCalls[k].tool] :
            k \in 1..Len(f.toolCalls)}

\* events[currentEventIndex] exists
HasCurrentEvent(events, cursor) ==
    cursor + 1 \in 1..Len(events)

\* shouldShowArrow(sourceId, targetId, edgeType) for the cursor, which
\* indexes the full event list
shouldShowArrow(events, cursor, sourceId, targetId, edgeType) ==
    IF ~HasCurrentEvent(events, cursor) THEN FALSE
    ELSE LET currentEvent == events[cursor + 1]
             later == {j \in (cursor + 2)..Len(events) :
                          events[j].type = "agent_response"}
             nextResponse == IF later = {} THEN 0
                             ELSE CHOOSE j \in later : \A i \in later : j <= i
         IN CASE currentEvent.type = "user_message" ->
                    /\ edgeType = "user_interaction"
                    /\ sourceId = "User"
                    /\ nextResponse /= 0
                    /\ targetId = OrElse(events[nextResponse].agent_id,
                                         events[nextResponse].agent)
              [] currentEvent.type = "tool_call" ->
                    /\ edgeType = "tool_call"
                    /\ sourceId = OrElse(currentEvent.agent_id, currentEvent.agent)
                    /\ currentEvent.details.tool_name /= Undefined
                    /\ targetId = currentEvent.details.tool_name
              [] currentEvent.type = "agent_response" ->
                    /\ edgeType = "user_interaction"
                    /\ sourceId = OrElse(currentEvent.agent_id, currentEvent.agent)
                    /\ targetId = "User"
              [] currentEvent.type = "handoff" ->
                    /\ edgeType = "handoff"
                    /\ currentEvent.details.from_agent_id /= Undefined
                    /\ sourceId = currentEvent.details.from_agent_id
                    /\ targetId = currentEvent.details.to_agent_id
              [] OTHER -> FALSE

\* the edges of the graph memo with what the cursor makes of them:
\* isActive (the stored index is not after the cursor), the arrow heads
\* and the animation.  eventIndex is the index stored with the occurrence
\* that created the edge.
GraphEdges(events, cursor, f) ==
    {[id |-> "user-" \o f.userInteractions[k].agent, type |-> "user_interaction",
      source |-> "User", target |-> f.userInteractions[k].agent,
      eventIndex |-> f.userInteractions[k].eventIndex,
      isActive |-> f.userInteractions[k].eventIndex <= cursor,
      markerEnd |-> shouldShowArrow(events, cursor, "User",
                        f.userInteractions[k].agent, "user_interaction"),
      markerStart |-> shouldShowArrow(events, cursor,
                        f.userInteractions[k].agent, "User", "user_interaction")] :
        k \in FirstInteractions(f.userInteractions)}
    \cup {[id |-> "handoff-" \o ToString(k - 1), type |-> "handoff",
           source |-> f.handoffs[k].from, target |-> f.handoffs[k].to,
           eventIndex |-> f.handoffs[k].eventIndex,
           isActive |-> f.handoffs[k].eventIndex <= cursor,
           markerEnd |-> shouldShowArrow(events, cursor,
                             f.handoffs[k].from, f.handoffs[k].to, "handoff"),
           markerStart |-> FALSE] :
            k \in 1..Len(f.handoffs)}
    \cup {[id |-> "tool-" \o ToString(k - 1), type |-> "tool_call",
           source |-> f.toolCalls[k].agent, target |-> f.toolCalls[k].tool,
           eventIndex |-> f.toolCalls[k].eventIndex,
           isActive |-> f.toolCalls[k].eventIndex <= cursor,
           markerEnd |-> shouldShowArrow(events, cursor,
                             f.toolCalls[k].agent, f.toolCalls[k].tool, "tool_call"),
           markerStart |-> FALSE] :
            k \in 1..Len(f.toolCalls)}

\* animated: isActive && (an arrow is shown)
Animated(edge) == edge.isActive /\ (edge.markerEnd \/ edge.markerStart)

\* ----------------------------------------------------- MultiAgentFlow
\* Map.get(key) || fallback, on a Map kept as a function
GetOr(m, key, fallback) == IF key \in DOMAIN m THEN m[key] ELSE fallback

RECURSIVE RolesFrom(_, _, _)
\* phase 1, from position k: outerAgents, actualAgents, toolCalls and the
\* handoffMap (to_agent -> from_agent, the last handoff wins)
RolesFrom(nve, k, acc) ==
    IF k > Len(nve) THEN acc
    ELSE LET event == nve[k] IN
         RolesFrom(nve, k + 1,
            IF event.type = "handoff"
            THEN [acc EXCEPT
                    !.outerAgents = @ \cup {event.details.from_agent},
                    !.actualAgents = @ \cup {event.details.to_agent},
                    !.handoffMap = MapSet(@, event.details.to_agent,
                                          event.details.from_agent)]
            ELSE IF event.type = "tool_call" /\ event.details.tool_name /= Undefined
            THEN [acc EXCEPT !.toolCalls = @ \cup {event.details.tool_name}]
            ELSE IF /\ event.type \in {"user_message", "agent_response"}
                    /\ event.agent /= "User"
                    /\ event.agent \notin acc.actualAgents
            THEN [acc EXCEPT !.outerAgents = @ \cup {event.agent}]
            ELSE acc)

\* `${from}-${to}`
ConnectionKey(from, to) == from \o "-" \o to

\* the position of `key` in the connections Map (kept in insertion order),
\* 0 when the Map has no such key
KeyPosition(connections, key) ==
    LET hits == {k \in 1..Len(connections) : connections[k].key = key}
    IN IF hits = {} THEN 0 ELSE CHOOSE k \in hits : TRUE

\* a connection per direction: the reverse key is not looked up
ConnectionPerDirection(connections, type, from, to, eventIndex, eventType, direction) ==
    LET key == ConnectionKey(from, to)
        at == IF \E k \in 1..Len(connections) : connections[k].key = key
              THEN CHOOSE k \in 1..Len(connections) : connections[k].key = key
              ELSE 0
        occurrence == [index |-> eventIndex, type |-> eventType,
                       direction |-> direction]
    IN IF at /= 0
       THEN [connections EXCEPT ![at].events = Append(@, occurrence)]
       ELSE Append(connections,
                   [key |-> key, type |-> type, from |-> from, to |-> to,
                    events |-> <<occurrence>>,
                    isBidirectional |-> type \in {"user-outer", "outer-actual"}])

\* addConnection: push the occurrence on the connection stored under
\* from-to or, failing that, under to-from; else store a new connection
addConnection(connections, type, from, to, eventIndex, eventType, direction) ==
    LET key == ConnectionKey(from, to)
        reverseKey == ConnectionKey(to, from)
        existingKey == IF KeyPosition(connections, key) /= 0 THEN key
                       ELSE IF KeyPosition(connections, reverseKey) /= 0
                            THEN reverseKey ELSE key
        at == KeyPosition(connections, existingKey)
        occurrence == [index |-> eventIndex, type |-> eventType,
                       direction |-> direction]
    IN IF at /= 0
       THEN [connections EXCEPT ![at].events = Append(@, occurrence)]
       ELSE Append(connections,
                   [key |-> existingKey, type |-> type, from |-> from, to |-> to,
                    events |-> <<occurrence>>,
                    isBidirectional |-> type \in {"user-outer", "outer-actual"}])

\* the tool call stored as an edge from the tool back to the agent
ToolAnswersAgent(connections, event, index) ==
    Append(connections,
           [key |-> ConnectionKey(event.details.tool_name, event.agent),
            type |-> "agent-tool",
            from |-> event.details.tool_name, to |-> event.agent,
            events |-> <<[index |-> index, type |-> "tool_call",
                          direction |-> "backward"]>>,
            isBidirectional |-> FALSE])

\* state.connections.set(toolKey, {...}): a new connection, or the value
\* under an existing key replaced
SetToolConnection(connections, event, index) ==
    LET toolKey == ConnectionKey(event.agent, event.details.tool_name)
        at == KeyPosition(connections, toolKey)
        connection == [key |-> toolKey, type |-> "agent-tool",
                       from |-> event.agent, to |-> event.details.tool_name,
                       events |-> <<[index |-> index, type |-> "tool_call",
                                     direction |-> Undefined]>>,
                       isBidirectional |-> FALSE]
    IN IF at /= 0 THEN [connections EXCEPT ![at] = connection]
       ELSE Append(connections, connection)

RECURSIVE ConnectionsFrom(_, _, _, _)
\* phase 3, from position k: the connections Map
ConnectionsFrom(nve, k, handoffMap, connections) ==
    IF k > Len(nve) THEN connections
    ELSE LET event == nve[k]
             index == k - 1
             next == NextResponse(nve, k)
         IN ConnectionsFrom(nve, k + 1, handoffMap,
              CASE event.type = "user_message" ->
                     IF next = 0 THEN connections
                     ELSE addConnection(connections, "user-outer", "User",
                              GetOr(handoffMap, nve[next].agent, nve[next].agent),
                              index, "user_message", "forward")
                [] event.type = "handoff" ->
                     addConnection(connections, "outer-actual",
                                   event.details.from_agent, event.details.to_agent,
                                   index, "handoff", "forward")
                [] event.type = "tool_call" ->
                     IF event.details.tool_name = Undefined THEN connections
                     ELSE SetToolConnection(connections, event, index)
                [] event.type = "agent_response" ->
                     IF event.agent \in DOMAIN handoffMap
                     THEN addConnection(
                              addConnection(connections, "outer-actual",
                                            handoffMap[event.agent], event.agent,
                                            index, "agent_response", "backward"),
                              "user-outer", "User", handoffMap[event.agent],
                              index, "agent_response", "backward")
                     ELSE addConnection(connections, "user-outer", "User",
                                        event.agent, index, "agent_response",
                                        "backward")
                [] OTHER -> connections)

\* the sessionFlowState memo
sessionFlowState(events) ==
    LET nve == nonViolationEvents(events)
        roles == RolesFrom(nve, 1, [outerAgents |-> {}, actualAgents |-> {},
                                    toolCalls |-> {}, handoffMap |-> <<>>])
    IN [outerAgents |-> roles.outerAgents,
        actualAgents |-> roles.actualAgents,
        toolCalls |-> roles.toolCalls,
        connections |-> ConnectionsFrom(nve, 1, roles.handoffMap, <<>>)]

\* Array.from(connections).find(Test): the first position, in insertion
\* order, of a connection of this type leading to `to`; 0 when none
FirstConnectionTo(connections, type, to) ==
    LET hits == {k \in 1..Len(connections) :
                    connections[k].type = type /\ connections[k].to = to}
    IN IF hits = {} THEN 0 ELSE CHOOSE k \in hits : \A j \in hits : k <= j

\* the keys of toolCallPath for the cursor
toolCallPath(events, cursor, connections) ==
    IF ~HasCurrentEvent(events, cursor) THEN {}
    ELSE LET currentEvent == events[cursor + 1]
             agentName == currentEvent.agent
             outer == FirstConnectionTo(connections, "outer-actual", agentName)
             KeyOf(at) == IF at = 0 THEN {} ELSE {connections[at].key}
         IN IF currentEvent.type /= "tool_call"
               \/ currentEvent.details.tool_name = Undefined
            THEN {}
            ELSE {ConnectionKey(agentName, currentEvent.details.tool_name)}
                 \cup (IF outer /= 0
                       THEN KeyOf(outer)
                            \cup KeyOf(FirstConnectionTo(connections, "user-outer",
                                                         connections[outer].from))
                       ELSE KeyOf(FirstConnectionTo(connections, "user-outer",
                                                    agentName)))

\* connection.events.find(e => e.index === currentEventIndex): the position
\* of the first such occurrence, 0 when none
currentEventMatch(connection, cursor) ==
    LET hits == {k \in 1..Len(connection.events) :
                    connection.events[k].index = cursor}
    IN IF hits = {} THEN 0 ELSE CHOOSE k \in hits : \A j \in hits : k <= j

\* the edges MultiAgentFlow draws, one per connection in insertion order:
\* id, end points as drawn, activity and arrow head
MultiAgentFlowEdges(events, cursor, connections) ==
    [k \in 1..Len(connections) |->
        LET connection == connections[k]
            match == currentEventMatch(connection, cursor)
            isPartOfToolCallPath ==
                connection.key \in toolCallPath(events, cursor, connections)
            isActive == match /= 0 \/ isPartOfToolCallPath
            backward == /\ isActive
                        /\ connection.type /= "agent-tool"
                        /\ connection.isBidirectional
                        /\ match /= 0
                        /\ connection.events[match].direction /= "forward"
        IN [id |-> "edge-" \o ToString(k - 1),
            key |-> connection.key,
            type |-> connection.type,
            source |-> IF backward THEN connection.to ELSE connection.from,
            target |-> IF backward THEN connection.from ELSE connection.to,
            isActive |-> isActive,
            markerEnd |-> isActive /\ (connection.type = "agent-tool"
                                         \/ connection.isBidirectional)]]

\* ------------------------------------------------------------- inputs
MaxMsgs == 2
MaxResps == 1
MaxDets == 2
MaxTools == 1

SeqsUpTo(S, n) == UNION {[1..k -> S] : k \in 0..n}

MsgTimes == {1000, 1001}
RespTimes == {1000, 1100}
ToolTimes == {1050, 1200}
MsgRequestIds == {Undefined, "r1"}
\* the request_id and trace_id of a response
RespLinks == {[request_id |-> "r1", trace_id |-> Undefined],
              [request_id |-> "r1", trace_id |-> "m2"],
              [request_id |-> "r2", trace_id |-> "m2"]}
AgentIds == {"a1", "a2"}
Handoffs == {[occurred |-> FALSE, details |-> NoHandoffDetails],
             [occurred |-> TRUE, details |-> NoHandoffDetails],
             [occurred |-> TRUE, details |-> [from_agent |-> "a1", to_agent |-> "a2"]]}
ToolNames == {"t1"}
DetectionTypes == {"pii", "secret"}

\* chat histories of at most n messages; message k has message_id "m<k>".
\* The code reads nothing but the role of an assistant message, so one
\* assistant message stands for all.
ChatHistories(times, requestIds, n) ==
    LET shapes == [role : {"user"}, timestamp : times, request_id : requestIds]
                  \cup {[role |-> "assistant",
                         timestamp |-> CHOOSE t \in times : \A u \in times : t <= u,
                         request_id |-> Undefined]}
    IN {[k \in 1..Len(h) |->
            [role |-> h[k].role, timestamp |-> h[k].timestamp,
             message_id |-> "m" \o ToString(k), request_id |-> h[k].request_id]] :
        h \in SeqsUpTo(shapes, n)}

\* response lists of at most n responses; response k has response_id "p<k>"
AgentResponses(times, links, agentIds, handoffs, tools, maxTools, n) ==
    LET shapes == [timestamp : times, link : links, agent_id : agentIds,
                   handoff : handoffs, tools_used : SeqsUpTo(tools, maxTools)]
    IN {[k \in 1..Len(h) |->
            [timestamp |-> h[k].timestamp,
             request_id |-> h[k].link.request_id,
             trace_id |-> h[k].link.trace_id,
             response_id |-> "p" \o ToString(k),
             agent_id |-> h[k].agent_id,
             agent |-> "Web Search Agent",
             handoff_occurred |-> h[k].handoff.occurred,
             handoff_details |-> h[k].handoff.details,
             tools_used |-> h[k].tools_used]] :
        h \in SeqsUpTo(shapes, n)}

\* detection lists of at most n detections; detection k has id "d<k>"
Detections(types, messageIds, requestIds, indexes, traceIds, n) ==
    LET shapes == [detection_type : types, message_id : messageIds,
                   request_id : requestIds, message_index : indexes,
                   trace_id : traceIds]
    IN {[k \in 1..Len(h) |->
            [id |-> "d" \o ToString(k),
             detection_type |-> h[k].detection_type,
             message_id |-> h[k].message_id,
             request_id |-> h[k].request_id,
             message_index |-> h[k].message_index,
             trace_id |-> h[k].trace_id]] :
        h \in SeqsUpTo(shapes, n)}

\* sessions rich in timing and in response shape: one response with or
\* without agent_id, handoff and tool call, findings keyed by message_id
\* and request_id
TimingSessions ==
    [chat_history : ChatHistories(MsgTimes, MsgRequestIds, MaxMsgs),
     agent_responses :
         AgentResponses(RespTimes, RespLinks, AgentIds \cup {Undefined}, Handoffs,
                        [tool_name : ToolNames, timestamp : ToolTimes],
                        MaxTools, MaxResps),
     detections :
         Detections({"pii"}, {Undefined, "m1"}, {Undefined, "r1"}, {NoIndex},
                    {Undefined}, MaxDets)]

\* sessions rich in findings: every identifier scheme and two detection
\* types, over plain responses
FindingSessions ==
    [chat_history : ChatHistories(MsgTimes, MsgRequestIds, MaxMsgs),
     agent_responses :
         AgentResponses({1100}, RespLinks, {"a1"},
                        {[occurred |-> FALSE, details |-> NoHandoffDetails]},
                        {}, 0, MaxResps),
     detections :
         Detections(DetectionTypes, {Undefined, "m1"}, {Undefined, "r1"},
                    {NoIndex, 1}, {Undefined, "p1"}, MaxDets)]

Sessions == TimingSessions \cup FindingSessions

\* sessions of one turn whose timestamp strings may be unparseable: the
\* types say string, nothing validates it
BadTsSessions ==
    [chat_history : ChatHistories({NaN, 1000}, MsgRequestIds, 1),
     agent_responses :
         AgentResponses({NaN, 1100}, RespLinks, AgentIds \cup {Undefined}, Handoffs,
                        [tool_name : ToolNames, timestamp : {NaN, 1050}],
                        MaxTools, MaxResps),
     detections :
         Detections({"pii"}, {Undefined, "m1"}, {Undefined, "r1"}, {NoIndex},
                    {Undefined}, 1)]

\* sessions of one turn with parseable timestamps, for the name cache
CacheSessions ==
    [chat_history : ChatHistories({1000}, {"r1"}, 1),
     agent_responses :
         AgentResponses({1100}, {[request_id |-> "r1", trace_id |-> Undefined]},
                        AgentIds \cup {Undefined}, Handoffs,
                        [tool_name : ToolNames, timestamp : {1050}],
                        MaxTools, MaxResps),
     detections : {<<>>}]

\* a handoff between agents that the transcript names by display name
NamedHandoff ==
    [occurred |-> TRUE,
     details |-> [from_agent |-> "Customer Service Agent",
                  to_agent |-> "Web Search Agent"]]

\* sessions for the replay cursor: up to two user messages, one response
\* with or without agent_id, handoff (by id or by name) and tool call, and
\* a finding on the first message or on the turn's request_id
ReplaySessions ==
    [chat_history : ChatHistories({1000, 2000}, {"r1", "r2"}, MaxMsgs),
     agent_responses :
         AgentResponses({1100}, {[request_id |-> "r1", trace_id |-> Undefined]},
                        {Undefined, "a2"}, Handoffs \cup {NamedHandoff},
                        [tool_name : ToolNames, timestamp : {1050}],
                        MaxTools, MaxResps),
     detections :
         Detections({"pii"}, {Undefined, "m1"}, {Undefined, "r1"}, {NoIndex},
                    {Undefined}, 1)]

\* a conversation holds at most this many responses
MaxTurns == 2

\* conversations of up to two turns answered by the same or by different
\* agents, in either order of time, with or without agent_id, handoff and
\* tool call, and a finding on the first message
TurnSessions ==
    [chat_history : ChatHistories({1000, 2000}, {"r1", "r2"}, MaxMsgs),
     agent_responses :
         AgentResponses({1100, 2100},
                        {[request_id |-> "r1", trace_id |-> Undefined],
                         [request_id |-> "r2", trace_id |-> Undefined]},
                        AgentIds \cup {Undefined},
                        {[occurred |-> FALSE, details |-> NoHandoffDetails],
                         [occurred |-> TRUE,
                          details |-> [from_agent |-> "a1", to_agent |-> "a2"]]},
                        [tool_name : ToolNames, timestamp : {1050}],
                        MaxTools, MaxTurns),
     detections :
         Detections({"pii"}, {"m1"}, {Undefined}, {NoIndex}, {Undefined}, 1)]

\* the handoff back from the second agent to the first
ReverseHandoff ==
    [occurred |-> TRUE,
     details |-> [from_agent |-> "Web Search Agent",
                  to_agent |-> "Customer Service Agent"]]

\* conversations of up to two turns between two agents that the transcript
\* names by display name, each turn with or without a handoff in either
\* direction
HandoffSessions ==
    [chat_history : ChatHistories({1000, 2000}, {"r1", "r2"}, MaxMsgs),
     agent_responses :
         AgentResponses({1100, 2100},
                        {[request_id |-> "r1", trace_id |-> Undefined],
                         [request_id |-> "r2", trace_id |-> Undefined]},
                        {"Customer Service Agent", "Web Search Agent"},
                        {[occurred |-> FALSE, details |-> NoHandoffDetails],
                         NamedHandoff, ReverseHandoff},
                        {}, 0, MaxTurns),
     detections : {<<>>}]

\* sessions whose response may carry the message_id of the user message
\* as its trace_id or as its response_id, beside or instead of a shared
\* request_id
ResponseIdSessions ==
    [chat_history : ChatHistories({1000}, MsgRequestIds, MaxMsgs),
     agent_responses :
         {[k \in 1..Len(h) |-> [h[k] EXCEPT !.response_id = id]] :
             h \in AgentResponses({1100},
                                  [request_id : {"r1", "r2"},
                                   trace_id : {Undefined, "m1"}],
                                  {"a1"}, Handoffs,
                                  [tool_name : ToolNames, timestamp : {1050}],
                                  MaxTools, MaxResps),
             id \in {"p1", "m1"}},
     detections : {<<>>}]

\* a response lists at most this many tool usages with their own times
MaxTimedTools == 3

\* sessions of one turn whose tool usages carry their own timestamps, in
\* or out of the order of the usage list
TimedToolSessions ==
    [chat_history : ChatHistories({1000}, {"r1"}, 1),
     agent_responses :
         AgentResponses({1100}, {[request_id |-> "r1", trace_id |-> Undefined]},
                        {"a2"}, Handoffs,
                        [tool_name : {"t1", "t2"}, timestamp : ToolTimes],
                        MaxTimedTools, MaxResps),
     detections : {<<>>}]

\* no session is open
NoSession == [chat_history |-> <<>>, agent_responses |-> <<>>, detections |-> <<>>]

\* performInitialization runs at most this many times
MaxRuns == 3

\* a response lists at most this many tool usages in the tool sessions
MaxToolsPerTurn == 6

\* sessions of one turn whose response used several tools, each recorded
\* between the user message and the response
ToolSessions ==
    [chat_history : ChatHistories({1000}, {"r1"}, 1),
     agent_responses :
         AgentResponses({1100}, {[request_id |-> "r1", trace_id |-> Undefined]},
                        {"a2"}, Handoffs,
                        [tool_name : {"t1", "t2"}, timestamp : {1050}],
                        MaxToolsPerTurn, MaxResps),
     detections : {<<>>}]

\* agent.agent_name as the agents API returns it (absent, or a display name)
ApiAgentNames == {Undefined, "Helper"}
\* the wall clock advances at most this many cache lifetimes
MaxTicks == 2

\* ---------------------------------------------------------- behaviour
NoResult == [threw |-> FALSE, events |-> <<>>]
NoFlow == [agents |-> <<>>, tools |-> <<>>, handoffs |-> <<>>,
           userInteractions |-> <<>>, toolCalls |-> <<>>, primaryAgent |-> Undefined]

\* agentNameInitializer.ts as loaded: initialized = false, initPromise =
\* null (0), no performInitialization run, no call made
NotInitialized ==
    [initialized |-> FALSE, initPromise |-> 0, runs |-> <<>>,
     lastCall |-> [inFlight |-> 0, returned |-> 0]]

\* the module has loaded (empty name cache) and a session has been fetched
InitWith(sessions) ==
    /\ sessionData \in sessions
    /\ agentNameCache = <<>>
    /\ now = 0
    /\ pc = "fetched"
    /\ result = NoResult
    /\ flow = NoFlow
    /\ previous = <<>>
    /\ currentEventIndex = 0
    /\ flowState = <<>>
    /\ initializer = NotInitialized

Init == InitWith(Sessions)

\* MultiAgentDashboard: useMemo(() => processSessionData(session), [session])
ProcessSessionData ==
    /\ pc = "fetched"
    /\ result' \in processSessionData(sessionData, agentNameCache, now)
    /\ pc' = "processed"
    /\ UNCHANGED <<sessionData, agentNameCache, now, flow, previous,
                 currentEventIndex, flowState, initializer>>

\* SessionFlowGraph renders the returned events: the sessionFlow memo
RenderFlowGraph ==
    /\ pc = "processed"
    /\ ~result.threw
    /\ flow' = sessionFlow(result.events)
    /\ pc' = "rendered"
    /\ UNCHANGED <<sessionData, agentNameCache, now, result, previous,
                 currentEventIndex, flowState, initializer>>

Next == ProcessSessionData \/ RenderFlowGraph

Spec == Init /\ [][Next]_vars

\* the same program on sessions whose timestamps may be unparseable
InitBadTs == InitWith(BadTsSessions)

SpecBadTs == InitBadTs /\ [][Next]_vars

\* AgentNameService.getAgentName / getAgentNames for one id: a fresh entry
\* is returned as it is; otherwise the API answer (or, when the request
\* fails or carries no name, the cleaned id) is cached with the current time
GetAgentName ==
    \E agentId \in AgentIds, agent_name \in ApiAgentNames :
        /\ getCachedAgentName(agentNameCache, now, agentId) = Undefined
        /\ agentNameCache' =
               [k \in DOMAIN agentNameCache \cup {agentId} |->
                   IF k = agentId
                   THEN [name |-> OrElse(agent_name, getCleanAgentName(agentId)),
                         cached_at |-> now]
                   ELSE agentNameCache[k]]
        /\ UNCHANGED <<sessionData, now, pc, result, flow, previous,
                 currentEventIndex, flowState, initializer>>

\* AgentNameService.clearCache
clearCache ==
    /\ agentNameCache' = <<>>
    /\ UNCHANGED <<sessionData, now, pc, result, flow, previous,
                 currentEventIndex, flowState, initializer>>

\* Date.now() moves on by one cache lifetime
Tick ==
    /\ now < MaxTicks * CACHE_DURATION
    /\ now' = now + CACHE_DURATION
    /\ UNCHANGED <<sessionData, agentNameCache, pc, result, flow, previous,
                 currentEventIndex, flowState, initializer>>

\* the dashboard is given the same session again (refetch or remount): the
\* first output is kept aside and the memos are computed anew
Reprocess ==
    /\ pc = "rendered"
    /\ previous = <<>>
    /\ previous' = <<[events |-> result.events, flow |-> flow]>>
    /\ pc' = "fetched"
    /\ result' = NoResult
    /\ flow' = NoFlow
    /\ UNCHANGED <<sessionData, agentNameCache, now,
                 currentEventIndex, flowState, initializer>>

InitCache == InitWith(CacheSessions)

NextCache ==
    \/ ProcessSessionData
    \/ RenderFlowGraph
    \/ GetAgentName
    \/ clearCache
    \/ Tick
    \/ Reprocess

SpecCache == InitCache /\ [][NextCache]_vars

\* MultiAgentFlow renders the returned events: the sessionFlowState memo
RenderMultiAgentFlow ==
    /\ pc = "rendered"
    /\ flowState = <<>>
    /\ flowState' = <<sessionFlowState(result.events)>>
    /\ UNCHANGED <<sessionData, agentNameCache, now, pc, result, flow, previous,
                   currentEventIndex, initializer>>

\* handleEventClick / handleTimelineClick: a card or a marker of the event
\* list is clicked; setCurrentEventIndex(index)
handleEventClick ==
    /\ pc = "rendered"
    /\ \E index \in 0..(Len(result.events) - 1) :
          /\ index /= currentEventIndex
          /\ currentEventIndex' = index
    /\ UNCHANGED <<sessionData, agentNameCache, now, pc, result, flow, previous,
                   flowState, initializer>>

\* the same program on conversations of several turns
InitTurns == InitWith(TurnSessions)

SpecTurns == InitTurns /\ [][Next]_vars

\* the same program on responses linked by trace_id or response_id
InitResponseIds == InitWith(ResponseIdSessions)

SpecResponseIds == InitResponseIds /\ [][Next]_vars

\* the same program on tool usages with their own timestamps
InitTimedTools == InitWith(TimedToolSessions)

SpecTimedTools == InitTimedTools /\ [][Next]_vars

\* EventFeed: a card of the list without violation events is clicked;
\* onEventClick(index) with the card's index in that list
EventFeedClick ==
    /\ pc = "rendered"
    /\ \E index \in 0..(Len(nonViolationEvents(result.events)) - 1) :
          /\ index /= currentEventIndex
          /\ currentEventIndex' = index
    /\ UNCHANGED <<sessionData, agentNameCache, now, pc, result, flow, previous,
                   flowState, initializer>>

\* Timeline: a marker or a click area is clicked; onTimelineClick(index)
\* with the index in timelineEvents
handleTimelineClick ==
    /\ pc = "rendered"
    /\ \E index \in 0..(Len(timelineEvents(result.events)) - 1) :
          /\ index /= currentEventIndex
          /\ currentEventIndex' = index
    /\ UNCHANGED <<sessionData, agentNameCache, now, pc, result, flow, previous,
                   flowState, initializer>>

\* EventFeed, ArrowRight
onNext ==
    /\ pc = "rendered"
    /\ currentEventIndex < Len(nonViolationEvents(result.events)) - 1
    /\ currentEventIndex' = currentEventIndex + 1
    /\ UNCHANGED <<sessionData, agentNameCache, now, pc, result, flow, previous,
                   flowState, initializer>>

\* EventFeed, ArrowLeft
onPrevious ==
    /\ pc = "rendered"
    /\ currentEventIndex > 0
    /\ currentEventIndex' = currentEventIndex - 1
    /\ UNCHANGED <<sessionData, agentNameCache, now, pc, result, flow, previous,
                   flowState, initializer>>

\* the dashboard with its event feed, its timeline and the keyboard
NextDashboard ==
    \/ ProcessSessionData
    \/ RenderFlowGraph
    \/ EventFeedClick
    \/ handleTimelineClick
    \/ onNext
    \/ onPrevious

InitDashboard == InitWith(ReplaySessions)

SpecDashboard == InitDashboard /\ [][NextDashboard]_vars

\* AgentNameInitializer.initialize() is called (main.tsx on startup, or
\* any later caller)
Initialize ==
    /\ Len(initialize(initializer).runs) <= MaxRuns
    /\ initializer' = initialize(initializer)
    /\ UNCHANGED <<sessionData, agentNameCache, now, pc, result, flow, previous,
                   currentEventIndex, flowState>>

\* AgentNameInitializer.refresh(): initialized = false, clearCache(),
\* initialize()
Refresh ==
    LET reset == [initializer EXCEPT !.initialized = FALSE]
    IN /\ Len(initialize(reset).runs) <= MaxRuns
       /\ initializer' = initialize(reset)
       /\ agentNameCache' = <<>>
       /\ UNCHANGED <<sessionData, now, pc, result, flow, previous,
                      currentEventIndex, flowState>>

\* api.agents.list resolves for a run: getAgentNames(agentIds) looks the
\* listed ids up in the cache and requests the others
AgentsListed ==
    \E k \in 1..Len(initializer.runs), agents \in SUBSET AgentIds :
        /\ initializer.runs[k].stage = "list"
        /\ initializer' =
               [initializer EXCEPT
                  !.runs[k].stage = "names",
                  !.runs[k].pending =
                      {agentId \in agents :
                          getCachedAgentName(agentNameCache, now, agentId) = Undefined}]
        /\ UNCHANGED <<sessionData, agentNameCache, now, pc, result, flow, previous,
                       currentEventIndex, flowState>>

\* api.agents.list rejects, or its answer cannot be read: catch, then
\* finally { this.initPromise = null }
AgentsListFailed ==
    \E k \in 1..Len(initializer.runs) :
        /\ initializer.runs[k].stage = "list"
        /\ initializer' =
               [initializer EXCEPT !.runs[k].stage = "fulfilled",
                                   !.runs[k].failed = TRUE,
                                   !.initPromise = 0]
        /\ UNCHANGED <<sessionData, agentNameCache, now, pc, result, flow, previous,
                       currentEventIndex, flowState>>

\* getAgentNames: the request for one pending id settles; its API name
\* or, failing that, its cleaned id is cached
AgentNameFetched ==
    \E k \in 1..Len(initializer.runs), agent_name \in ApiAgentNames :
        \E agentId \in initializer.runs[k].pending :
            /\ initializer.runs[k].stage = "names"
            /\ agentNameCache' =
                   [x \in DOMAIN agentNameCache \cup {agentId} |->
                       IF x = agentId
                       THEN [name |-> OrElse(agent_name, getCleanAgentName(agentId)),
                             cached_at |-> now]
                       ELSE agentNameCache[x]]
            /\ initializer' = [initializer EXCEPT !.runs[k].pending = @ \ {agentId}]
            /\ UNCHANGED <<sessionData, now, pc, result, flow, previous,
                           currentEventIndex, flowState>>

\* getAgentNames has resolved (or no agent was listed): initialized =
\* true, then finally { this.initPromise = null }
InitializationDone ==
    \E k \in 1..Len(initializer.runs) :
        /\ initializer.runs[k].stage = "names"
        /\ initializer.runs[k].pending = {}
        /\ initializer' =
               [initializer EXCEPT !.runs[k].stage = "fulfilled",
                                   !.initialized = TRUE,
                                   !.initPromise = 0]
        /\ UNCHANGED <<sessionData, agentNameCache, now, pc, result, flow, previous,
                       currentEventIndex, flowState>>

\* the name cache initializer before any session is opened
InitInitializer == InitWith({NoSession})

NextInitializer ==
    \/ Initialize
    \/ Refresh
    \/ AgentsListed
    \/ AgentsListFailed
    \/ AgentNameFetched
    \/ InitializationDone

SpecInitializer == InitInitializer /\ [][NextInitializer]_vars

\* the same program on turns with many tool usages
InitTools == InitWith(ToolSessions)

SpecTools == InitTools /\ [][Next]_vars

InitReplay == InitWith(ReplaySessions)

NextReplay ==
    \/ ProcessSessionData
    \/ RenderFlowGraph
    \/ RenderMultiAgentFlow
    \/ handleEventClick

SpecReplay == InitReplay /\ [][NextReplay]_vars

\* the replay on conversations with handoffs in both directions
InitHandoffs == InitWith(HandoffSessions)

SpecHandoffs == InitHandoffs /\ [][NextReplay]_vars

\* ============================================================== claims
Returned == pc \in {"processed", "rendered"} /\ ~result.threw

ViolationId(event, detectionIndex) ==
    event.id \o "-violation-" \o ToString(detectionIndex)

\* C1: the returned events are in non-decreasing timestamp order.
C1_SortedByTimestamp ==
    Returned =>
        \A i, j \in 1..Len(result.events) :
            i < j => DateGetTime(result.events[i].timestamp)
                        <= DateGetTime(result.events[j].timestamp)

\* the sort moved something, in a list with a handoff and a violation
C1_Witness ==
    /\ Returned
    /\ Correlate(sessionData, agentNameCache, now).events /= result.events
    /\ \E k \in 1..Len(result.events) : result.events[k].type = "handoff"
    /\ \E k \in 1..Len(result.events) : result.events[k].type = "violation"

\* C2: no two violation events of the output reference the same detection id.
C2_OneViolationPerDetection ==
    Returned =>
        \A i, j \in 1..Len(result.events) :
            (/\ i < j
             /\ result.events[i].type = "violation"
             /\ result.events[j].type = "violation")
            => result.events[i].details.violation_id
                  /= result.events[j].details.violation_id

\* C3: the violation events of an event follow it directly, in detection order.
C3_ViolationsFollowTheirEvent ==
    Returned =>
        \A i \in 1..Len(result.events) :
            \A k \in 1..Len(result.events[i].detections) :
                /\ i + k <= Len(result.events)
                /\ result.events[i + k].type = "violation"
                /\ result.events[i + k].id = ViolationId(result.events[i], k - 1)

\* the display names the events give to agent id a
NamesOf(events, a) ==
    {events[k].agent : k \in {j \in 1..Len(events) :
        \/ events[j].agent_id = a
        \/ events[j].type = "handoff" /\ events[j].details.from_agent_id = a}}

\* the agent ids that a handoff event names by display name only (its
\* agent field) and by id (from_agent_id)
HandoffSources(events) ==
    {events[k].details.from_agent_id :
        k \in {j \in 1..Len(events) : events[j].type = "handoff"}}

\* C5: an agent named by id in one place and by display name in another has
\* exactly one entry in the participant map.
C5_OneEntryPerAgent ==
    pc = "rendered" =>
        \A a \in HandoffSources(result.events) :
            Cardinality({key \in DOMAIN flow.agents :
                            key = a \/ key \in NamesOf(result.events, a)}) = 1

\* a single turn whose response records a handoff to the responding agent,
\* which calls a tool
IsHandoffToolTurn(data) ==
    /\ Len(data.chat_history) = 1
    /\ data.chat_history[1].role = "user"
    /\ ResolveResponse(data.agent_responses, data.chat_history[1]) /= 0
    /\ LET r == data.agent_responses[
                    ResolveResponse(data.agent_responses, data.chat_history[1])]
       IN /\ EmitsHandoff(r)
          /\ r.handoff_details.from_agent /= r.handoff_details.to_agent
          /\ OrElse(r.agent_id, r.agent) = r.handoff_details.to_agent
          /\ Len(r.tools_used) > 0

\* C7: for such a turn the edges are user-a1, a1-a2 and a2-Tool.
C7_HandoffTurnEdges ==
    (pc = "rendered" /\ IsHandoffToolTurn(sessionData)) =>
        LET r == sessionData.agent_responses[
                     ResolveResponse(sessionData.agent_responses,
                                     sessionData.chat_history[1])]
        IN {<<e.source, e.target>> : e \in FlowEdges(flow)}
           = {<<"User", r.handoff_details.from_agent>>,
              <<r.handoff_details.from_agent, r.handoff_details.to_agent>>}
             \cup {<<r.handoff_details.to_agent, r.tools_used[k].tool_name>> :
                     k \in 1..Len(r.tools_used)}

\* the position of the event with this id (ids are unique where it is used)
PositionOf(events, id) == CHOOSE k \in 1..Len(events) : events[k].id = id

\* the user messages that resolve to response number n
TurnsOf(data, n) ==
    {k \in 1..Len(data.chat_history) :
        /\ data.chat_history[k].role = "user"
        /\ ResolveResponse(data.agent_responses, data.chat_history[k]) = n}

\* C8: a turn whose response is not earlier than its user message is listed
\* in causal order: user_message, handoff, tool calls, agent_response.
\* (Stated for responses resolved by one user message, whose events are
\* identified by their ids.)
C8_CausalOrder ==
    Returned =>
        \A n \in 1..Len(sessionData.agent_responses) :
            \A m \in TurnsOf(sessionData, n) :
                LET r == sessionData.agent_responses[n]
                    message == sessionData.chat_history[m]
                    ev == result.events
                    user == PositionOf(ev, message.message_id)
                    response == PositionOf(ev, r.response_id)
                    handoff == PositionOf(ev, r.response_id \o "-handoff")
                    tool(k) == PositionOf(ev, r.response_id \o "-tool-" \o ToString(k - 1))
                IN (TurnsOf(sessionData, n) = {m} /\ r.timestamp >= message.timestamp) =>
                      /\ user < response
                      /\ EmitsHandoff(r) => user < handoff /\ handoff < response
                      /\ \A k \in 1..Len(r.tools_used) :
                            /\ user < tool(k)
                            /\ tool(k) < response
                            /\ EmitsHandoff(r) => handoff < tool(k)

B2N(b) == IF b THEN 1 ELSE 0

\* by how many identifier schemes detection d reaches the user message at
\* JavaScript index `index`
SchemesToMessage(d, message, index) ==
    B2N(d.message_id /= Undefined /\ d.message_id = message.message_id)
    + B2N(d.request_id /= Undefined /\ d.request_id = message.request_id)
    + B2N(d.message_index /= NoIndex /\ d.message_index = index)
    + B2N(d.trace_id /= Undefined
          /\ d.trace_id = OrElse(message.request_id, message.message_id))

\* by how many of the schemes that do not depend on the turn detection d
\* reaches the response
SchemesToResponse(d, agentResponse) ==
    B2N(d.message_id /= Undefined /\ d.message_id = agentResponse.response_id)
    + B2N(d.request_id /= Undefined /\ d.request_id = agentResponse.request_id)
    + B2N(d.trace_id /= Undefined /\ d.trace_id = agentResponse.response_id)

\* detection d is attached once to `event`, and for each copy of the event
\* in the output there is one violation event for it
AttachedOnce(events, event, d) ==
    LET at == {j \in 1..Len(event.detections) : SameFinding(event.detections[j], d)}
        IsCopy(e) == e.id = event.id
        IsItsViolation(e) ==
            /\ e.type = "violation"
            /\ \E j \in at : /\ e.id = ViolationId(event, j - 1)
                             /\ e.details.violation_id = event.detections[j].id
    IN /\ Cardinality(at) = 1
       /\ Cardinality({k \in 1..Len(events) : IsItsViolation(events[k])})
             = Cardinality({k \in 1..Len(events) : IsCopy(events[k])})

C10_DistinctEventIds ==
    Returned =>
        \A i, j \in 1..Len(result.events) :
            i < j => result.events[i].id /= result.events[j].id

\* C6: processSessionData is total: it returns an event list and never
\* throws, also for a transcript whose timestamp strings are unparseable
\* and whose response has a handoff or whose event carries detections
C6_NeverThrows == pc \in {"processed", "rendered"} => ~result.threw

\* C4: two invocations on the same transcript yield equal events and an
\* equal graph, whatever the name cache and the clock are at each call
C4_SameOutputTwice ==
    (pc = "rendered" /\ previous # <<>>) =>
        /\ previous[1].events = result.events
        /\ previous[1].flow = flow

\* detection d shares no identifier with the transcript: its message_id is
\* no message_id or response_id, its request_id is no request_id, its
\* trace_id is no identifier at all, and its message_index is no ordinal
\* of a message or of the response position after one
Unmatched(d, data) ==
    LET msgs == {data.chat_history[k] : k \in 1..Len(data.chat_history)}
        resps == {data.agent_responses[k] : k \in 1..Len(data.agent_responses)}
        ids == {m.message_id : m \in msgs} \cup {r.response_id : r \in resps}
        requestIds == {m.request_id : m \in msgs} \cup {r.request_id : r \in resps}
        traceIds == ids \cup requestIds \cup {r.trace_id : r \in resps}
    IN /\ d.message_id = Undefined \/ d.message_id \notin ids
       /\ d.request_id = Undefined \/ d.request_id \notin requestIds
       /\ d.trace_id = Undefined \/ d.trace_id \notin traceIds
       /\ d.message_index = NoIndex \/ d.message_index \notin 0..Len(data.chat_history)

\* C11: a detection that matches no message and no response yields no
\* violation event and is in no event's detection list; when every
\* detection is such, every event's detection list is empty.
C11_UnmatchedDropped ==
    Returned =>
        /\ \A n \in 1..Len(sessionData.detections) :
              Unmatched(sessionData.detections[n], sessionData) =>
                  \A i \in 1..Len(result.events) :
                      /\ result.events[i].type = "violation" =>
                            result.events[i].details.violation_id
                               /= sessionData.detections[n].id
                      /\ \A j \in 1..Len(result.events[i].detections) :
                            result.events[i].detections[j].id
                               /= sessionData.detections[n].id
        /\ (\A n \in 1..Len(sessionData.detections) :
                Unmatched(sessionData.detections[n], sessionData))
           => \A i \in 1..Len(result.events) : result.events[i].detections = <<>>

\* a turn was correlated while the transcript held a detection that names
\* a request_id of no message and no response
C11_Witness ==
    /\ Returned
    /\ \E i \in 1..Len(result.events) : result.events[i].type = "agent_response"
    /\ \E n \in 1..Len(sessionData.detections) :
          /\ sessionData.detections[n].request_id /= Undefined
          /\ Unmatched(sessionData.detections[n], sessionData)

\* the tool names of the returned events
ToolNamesOf(events) ==
    {events[k].details.tool_name :
        k \in {j \in 1..Len(events) : events[j].type = "tool_call"}}

\* C12: every agent-tool edge runs from the calling agent to the tool: in
\* both graphs no tool is the source of an edge, as stored or as drawn for
\* any cursor, and no agent-tool edge has a backward occurrence or an
\* arrow toward the agent.
C12_ToolEdgesDirected ==
    pc = "rendered" =>
        /\ \A e \in GraphEdges(result.events, currentEventIndex, flow) :
              /\ e.source \notin ToolNamesOf(result.events)
              /\ e.type = "tool_call" =>
                    /\ e.target \in ToolNamesOf(result.events)
                    /\ ~e.markerStart
              /\ e.target \in ToolNamesOf(result.events) => e.type = "tool_call"
        /\ flowState /= <<>> =>
              LET connections == flowState[1].connections
                  drawn == MultiAgentFlowEdges(result.events, currentEventIndex,
                                               connections)
              IN /\ \A k \in 1..Len(connections) :
                       /\ connections[k].from \notin ToolNamesOf(result.events)
                       /\ drawn[k].source \notin ToolNamesOf(result.events)
                       /\ (connections[k].type = "agent-tool"
                            \/ connections[k].to \in ToolNamesOf(result.events)) =>
                              /\ connections[k].type = "agent-tool"
                              /\ connections[k].to \in ToolNamesOf(result.events)
                              /\ ~connections[k].isBidirectional
                              /\ drawn[k].target = connections[k].to
                              /\ \A j \in 1..Len(connections[k].events) :
                                    connections[k].events[j].direction /= "backward"

\* both graphs are drawn for a turn with a handoff and a tool call, and
\* the cursor is on the agent_response, where backward occurrences are made
C12_Witness ==
    /\ pc = "rendered"
    /\ flowState /= <<>>
    /\ HasCurrentEvent(result.events, currentEventIndex)
    /\ result.events[currentEventIndex + 1].type = "agent_response"
    /\ \E e \in GraphEdges(result.events, currentEventIndex, flow) :
          e.type = "tool_call"
    /\ \E k \in 1..Len(flowState[1].connections) :
          flowState[1].connections[k].type = "agent-tool"
    /\ \E k \in 1..Len(flowState[1].connections) :
          /\ flowState[1].connections[k].type = "outer-actual"
          /\ \E j \in 1..Len(flowState[1].connections[k].events) :
                flowState[1].connections[k].events[j].direction = "backward"

\* the index of events[k] in the full list and in the list without
\* violation events (JavaScript indices)
IndexesOf(events, k) ==
    {k - 1,
     Cardinality({j \in 1..(k - 1) : events[j].type /= "violation"})}

\* C13: for every user_message event followed by an agent_response event
\* of agent A, a request occurrence on the User-A edge is recorded with the
\* index of that user_message event.
C13_RequestRecorded ==
    pc = "rendered" =>
        \A k \in 1..Len(result.events) :
            LET later == {j \in (k + 1)..Len(result.events) :
                             result.events[j].type = "agent_response"}
                next == CHOOSE j \in later : \A i \in later : j <= i
            IN (result.events[k].type = "user_message" /\ later /= {}) =>
                  \E n \in 1..Len(flow.userInteractions) :
                      /\ flow.userInteractions[n].type = "request"
                      /\ flow.userInteractions[n].eventIndex
                            \in IndexesOf(result.events, k)
                      /\ flow.userInteractions[n].agent
                            = OrElse(result.events[next].agent_id,
                                     result.events[next].agent)

\* the position in `events` of the event that has JavaScript index
\* `index` in the list without violation events, 0 when there is none
OriginOf(events, index) ==
    LET hits == {k \in 1..Len(events) :
                    /\ events[k].type /= "violation"
                    /\ Cardinality({j \in 1..(k - 1) :
                                       events[j].type /= "violation"}) = index}
    IN IF hits = {} THEN 0 ELSE CHOOSE k \in hits : TRUE

\* C14: for every cursor position an edge of MultiAgentFlow is active
\* exactly when one of its occurrences originates from the event under the
\* cursor, or the cursor is on a tool_call and the edge is on its path.
C14_ActiveEdgesFollowCursor ==
    (pc = "rendered" /\ flowState /= <<>>) =>
        LET connections == flowState[1].connections
            drawn == MultiAgentFlowEdges(result.events, currentEventIndex, connections)
        IN \A k \in 1..Len(connections) :
              drawn[k].isActive <=>
                 \/ \E j \in 1..Len(connections[k].events) :
                       OriginOf(result.events, connections[k].events[j].index)
                          = currentEventIndex + 1
                 \/ connections[k].key
                       \in toolCallPath(result.events, currentEventIndex, connections)

\* C15: every tool_call event is stamped strictly after the handoff event
\* of its response, when there is one, and strictly before the
\* agent_response event.
C15_ToolBetweenHandoffAndResponse ==
    Returned =>
        \A n \in 1..Len(sessionData.agent_responses) :
            LET r == sessionData.agent_responses[n]
                ev == result.events
            IN \A k \in 1..Len(r.tools_used) :
                 \A t \in 1..Len(ev) :
                    ev[t].id = r.response_id \o "-tool-" \o ToString(k - 1) =>
                       \A o \in 1..Len(ev) :
                          /\ ev[o].id = r.response_id \o "-handoff" =>
                                DateGetTime(ev[o].timestamp) < DateGetTime(ev[t].timestamp)
                          /\ ev[o].id = r.response_id =>
                                DateGetTime(ev[t].timestamp) < DateGetTime(ev[o].timestamp)

\* some response carries the request_id of the message, or has the
\* message_id as its trace_id
Resolvable(data, message) ==
    \E n \in 1..Len(data.agent_responses) :
        \/ /\ message.request_id /= Undefined
           /\ data.agent_responses[n].request_id = message.request_id
        \/ /\ data.agent_responses[n].trace_id /= Undefined
           /\ data.agent_responses[n].trace_id = message.message_id

\* the positions of the events of this type
OfType(events, type) == {k \in 1..Len(events) : events[k].type = type}

\* C16: a user message without a resolvable response yields its own
\* user_message event and nothing else but that event's violations: every
\* user message has exactly one user_message event, there are as many
\* agent_response events as user messages with a resolvable response, and
\* every handoff and tool_call event belongs to an agent_response event.
C16_DanglingTurn ==
    Returned =>
        LET ev == result.events
            users == {k \in 1..Len(sessionData.chat_history) :
                         sessionData.chat_history[k].role = "user"}
        IN /\ \A k \in users :
                 Cardinality({i \in OfType(ev, "user_message") :
                     ev[i].id = sessionData.chat_history[k].message_id}) = 1
           /\ Cardinality(OfType(ev, "user_message")) = Cardinality(users)
           /\ Cardinality(OfType(ev, "agent_response"))
                 = Cardinality({k \in users :
                       Resolvable(sessionData, sessionData.chat_history[k])})
           /\ \A i \in OfType(ev, "handoff") :
                 \E j \in OfType(ev, "agent_response") :
                     ev[i].id = ev[j].id \o "-handoff"
           /\ \A i \in OfType(ev, "tool_call") :
                 \E j \in OfType(ev, "agent_response") :
                     \E t \in 0..MaxToolsPerTurn :
                         ev[i].id = ev[j].id \o "-tool-" \o ToString(t)
           /\ \A i \in OfType(ev, "violation") :
                 \E j \in OfType(ev, "user_message") \cup OfType(ev, "agent_response") :
                     \E d \in 1..Len(ev[j].detections) :
                         ev[i].id = ViolationId(ev[j], d - 1)

\* a user message with a finding and no resolvable response, followed by
\* a user message whose turn was emitted with its response
C16_Witness ==
    /\ Returned
    /\ Len(sessionData.chat_history) = 2
    /\ sessionData.chat_history[1].role = "user"
    /\ sessionData.chat_history[2].role = "user"
    /\ ~Resolvable(sessionData, sessionData.chat_history[1])
    /\ Resolvable(sessionData, sessionData.chat_history[2])
    /\ \E i \in OfType(result.events, "user_message") :
          /\ result.events[i].id = sessionData.chat_history[1].message_id
          /\ result.events[i].detections /= <<>>
    /\ OfType(result.events, "agent_response") /= {}
    /\ OfType(result.events, "violation") /= {}

\* no user message carries the request_id of the response, and none has
\* its trace_id as message_id
Orphan(data, agentResponse) ==
    \A k \in 1..Len(data.chat_history) :
        data.chat_history[k].role = "user" =>
            /\ data.chat_history[k].request_id /= agentResponse.request_id
            /\ data.chat_history[k].message_id /= agentResponse.trace_id

\* the event ids that can stem from a base id: itself, its handoff, its
\* tool calls and the violations of any of them
IdsFrom(id) ==
    LET base == {id, id \o "-handoff"}
                \cup {id \o "-tool-" \o ToString(t) : t \in 0..MaxToolsPerTurn}
    IN base \cup {b \o "-violation-" \o ToString(d) : b \in base, d \in 0..MaxDets}

\* C17: a response that no user message resolves to contributes no event,
\* and an assistant message produces no event.
C17_OrphansContributeNothing ==
    Returned =>
        /\ \A n \in 1..Len(sessionData.agent_responses) :
              Orphan(sessionData, sessionData.agent_responses[n]) =>
                  \A i \in 1..Len(result.events) :
                      result.events[i].id
                         \notin IdsFrom(sessionData.agent_responses[n].response_id)
        /\ \A k \in 1..Len(sessionData.chat_history) :
              sessionData.chat_history[k].role = "assistant" =>
                  \A i \in 1..Len(result.events) :
                      result.events[i].id
                         \notin IdsFrom(sessionData.chat_history[k].message_id)
        /\ Len(nonViolationEvents(result.events))
              <= Cardinality({k \in 1..Len(sessionData.chat_history) :
                                 sessionData.chat_history[k].role = "user"})
                 * (2 + MaxToolsPerTurn)

\* the transcript held an assistant message and a response with a handoff
\* and a tool that no user message resolves to, beside a user message
C17_Witness ==
    /\ Returned
    /\ result.events /= <<>>
    /\ \E k \in 1..Len(sessionData.chat_history) :
          sessionData.chat_history[k].role = "assistant"
    /\ \E n \in 1..Len(sessionData.agent_responses) :
          /\ Orphan(sessionData, sessionData.agent_responses[n])
          /\ EmitsHandoff(sessionData.agent_responses[n])
          /\ sessionData.agent_responses[n].tools_used /= <<>>

\* the event list holds user messages and their violations only
OnlyUserEvents(events) ==
    \A k \in 1..Len(events) : events[k].type \in {"user_message", "violation"}

\* C18: an event list without agent_response, handoff and tool_call
\* events gives a graph whose only participant is User, with no tool and
\* no edge.
C18_UserOnlyGraph ==
    (pc = "rendered" /\ OnlyUserEvents(result.events)) =>
        /\ DOMAIN flow.agents = {"User"}
        /\ DOMAIN flow.tools = {}
        /\ FlowEdges(flow) = {}
        /\ GraphEdges(result.events, currentEventIndex, flow) = {}
        /\ flow.primaryAgent = Undefined

\* the graph was built from two user messages and a violation
C18_Witness ==
    /\ pc = "rendered"
    /\ OnlyUserEvents(result.events)
    /\ Cardinality(OfType(result.events, "user_message")) = 2
    /\ OfType(result.events, "violation") /= {}

\* the positions of the agent_response events, and the first of them
FirstResponse(events) ==
    CHOOSE k \in OfType(events, "agent_response") :
        \A j \in OfType(events, "agent_response") : k <= j

\* the agents that answered
Responders(events) ==
    {OrElse(events[k].agent_id, events[k].agent) :
        k \in OfType(events, "agent_response")}

\* C19: the primary agent is the agent of the earliest agent_response event
\* of the returned list; it is no tool and not the Security Monitor, and
\* it is null exactly when the list holds no agent_response event.
C19_PrimaryAgentIsFirstResponder ==
    pc = "rendered" =>
        LET events == result.events
        IN /\ (flow.primaryAgent = Undefined)
                  <=> (OfType(events, "agent_response") = {})
           /\ OfType(events, "agent_response") /= {} =>
                  /\ flow.primaryAgent =
                         OrElse(events[FirstResponse(events)].agent_id,
                                events[FirstResponse(events)].agent)
                  /\ flow.primaryAgent \notin ToolNamesOf(events)
                  /\ flow.primaryAgent \notin DOMAIN flow.tools
                  /\ flow.primaryAgent /= "Security Monitor"

\* two agents answered, the earlier one after a handoff and a tool call
\* and behind a violation, and the earlier one is the primary agent
C19_Witness ==
    /\ pc = "rendered"
    /\ Cardinality(Responders(result.events)) = 2
    /\ OfType(result.events, "violation") /= {}
    /\ OfType(result.events, "tool_call") /= {}
    /\ OfType(result.events, "handoff") /= {}
    /\ \E k \in OfType(result.events, "tool_call") :
          k < FirstResponse(result.events)
    /\ flow.primaryAgent = result.events[FirstResponse(result.events)].agent_id

\* the names an event gives its agent: the display name and the id
AgentNamesOf(event) == {event.agent, event.agent_id} \ {Undefined}

\* the handoff events that hand over to the agent of `event`
HandoffsTo(events, event) ==
    {k \in OfType(events, "handoff") :
        events[k].details.to_agent_id = OrElse(event.agent_id, event.agent)}

\* some active edge of the given type joins a name of `from` and a name of `to`
ActiveBetween(drawn, type, from, to) ==
    \E k \in 1..Len(drawn) :
        /\ drawn[k].isActive
        /\ drawn[k].type = type
        /\ \/ drawn[k].source \in from /\ drawn[k].target \in to
           \/ drawn[k].source \in to /\ drawn[k].target \in from

\* C20: with the cursor on a tool_call event of agent A, the active edges
\* of MultiAgentFlow hold the A-tool edge and the chain that led to it:
\* the User-A edge when no handoff led to A, else the outer-A edge and the
\* User-outer edge of a handoff to A.
C20_ToolCallPathActive ==
    (pc = "rendered" /\ flowState /= <<>>
        /\ HasCurrentEvent(result.events, currentEventIndex)
        /\ result.events[currentEventIndex + 1].type = "tool_call") =>
        LET events == result.events
            event == events[currentEventIndex + 1]
            drawn == MultiAgentFlowEdges(events, currentEventIndex,
                                         flowState[1].connections)
            via == HandoffsTo(events, event)
        IN /\ ActiveBetween(drawn, "agent-tool", AgentNamesOf(event),
                            {event.details.tool_name})
           /\ via = {} =>
                  ActiveBetween(drawn, "user-outer", {"User"}, AgentNamesOf(event))
           /\ via /= {} =>
                  \E h \in via :
                     LET outer == {events[h].agent, events[h].details.from_agent_id}
                     IN /\ ActiveBetween(drawn, "outer-actual", outer, AgentNamesOf(event))
                        /\ ActiveBetween(drawn, "user-outer", {"User"}, outer)

\* the occurrences of a connection that come from a handoff event running
\* from `from` to `to`
HandoffOccurrences(events, connection, from, to) ==
    {j \in 1..Len(connection.events) :
        /\ connection.events[j].type = "handoff"
        /\ LET origin == OriginOf(events, connection.events[j].index)
           IN /\ origin /= 0
              /\ events[origin].type = "handoff"
              /\ events[origin].details.from_agent = from
              /\ events[origin].details.to_agent = to}

\* C21: the connection map of MultiAgentFlow holds at most one user-agent
\* or handoff record per unordered pair of participants, and every handoff
\* event has its occurrence on the record of its pair, whichever direction
\* the record was created in.
C21_OneRecordPerPair ==
    (pc = "rendered" /\ flowState /= <<>>) =>
        LET connections == flowState[1].connections
            events == result.events
        IN /\ \A j, k \in 1..Len(connections) :
                 (/\ j /= k
                  /\ connections[j].isBidirectional
                  /\ connections[k].isBidirectional) =>
                     {connections[j].from, connections[j].to}
                        /= {connections[k].from, connections[k].to}
           /\ \A h \in OfType(events, "handoff") :
                 \E k \in 1..Len(connections) :
                    /\ connections[k].type = "outer-actual"
                    /\ {connections[k].from, connections[k].to}
                          = {events[h].details.from_agent, events[h].details.to_agent}
                    /\ \E j \in 1..Len(connections[k].events) :
                          OriginOf(events, connections[k].events[j].index) = h

\* a handoff from B to A was added when the record of A to B existed:
\* one record holds a handoff occurrence of each direction
C21_Witness ==
    /\ pc = "rendered"
    /\ flowState /= <<>>
    /\ \E k \in 1..Len(flowState[1].connections) :
          LET connection == flowState[1].connections[k]
          IN /\ connection.from /= connection.to
             /\ HandoffOccurrences(result.events, connection,
                                   connection.from, connection.to) /= {}
             /\ HandoffOccurrences(result.events, connection,
                                   connection.to, connection.from) /= {}

\* the session without its findings
WithoutDetections(data) == [data EXCEPT !.detections = <<>>]

\* C22: the graph built from the returned events is the graph built from
\* the same list without its violation events, and the graph built from
\* the events of the same session without findings; the Security Monitor
\* is no participant and no tool.
C22_ViolationsLeaveGraphAlone ==
    pc = "rendered" =>
        /\ flow = sessionFlow(nonViolationEvents(result.events))
        /\ \A bare \in processSessionData(WithoutDetections(sessionData),
                                            agentNameCache, now) :
              /\ ~bare.threw
              /\ OfType(bare.events, "violation") = {}
              /\ sessionFlow(bare.events) = flow
        /\ "Security Monitor" \notin DOMAIN flow.agents
        /\ "Security Monitor" \notin DOMAIN flow.tools
        /\ flow.primaryAgent /= "Security Monitor"
        /\ \A k \in 1..Len(flow.handoffs) :
              "Security Monitor" \notin {flow.handoffs[k].from, flow.handoffs[k].to}
        /\ \A k \in 1..Len(flow.userInteractions) :
              flow.userInteractions[k].agent /= "Security Monitor"
        /\ \A k \in 1..Len(flow.toolCalls) :
              flow.toolCalls[k].agent /= "Security Monitor"

\* the graph of a turn with handoff, tool call and response was built
\* from a list that holds violation events ahead of them
C22_Witness ==
    /\ pc = "rendered"
    /\ flow.primaryAgent /= Undefined
    /\ Len(flow.handoffs) > 0
    /\ Len(flow.toolCalls) > 0
    /\ \E v \in OfType(result.events, "violation") :
          \E r \in OfType(result.events, "agent_response") : v < r
    /\ result.events[Len(result.events)].type = "violation"

\* the detection has no identifier but its message_index
IndexOnly(d) ==
    /\ d.message_index /= NoIndex
    /\ d.message_id = Undefined
    /\ d.request_id = Undefined
    /\ d.trace_id = Undefined

\* the positions of the base events that carry detection d
Holders(events, d) ==
    {i \in 1..Len(events) :
        /\ events[i].type /= "violation"
        /\ \E j \in 1..Len(events[i].detections) : events[i].detections[j].id = d.id}

\* C23: a detection known by message_index k alone is carried by at most
\* one base event, the one derived from chat message k: the user_message
\* event of message k when that is a user message, never the
\* agent_response of the turn before it.
C23_IndexedDetectionOnOneEvent ==
    Returned =>
        \A n \in 1..Len(sessionData.detections) :
            LET d == sessionData.detections[n]
                k == d.message_index + 1
                chat == sessionData.chat_history
            IN IndexOnly(d) =>
                  /\ Cardinality(Holders(result.events, d)) <= 1
                  /\ \A i \in Holders(result.events, d) :
                        (k \in 1..Len(chat) /\ chat[k].role = "user") =>
                            /\ result.events[i].type = "user_message"
                            /\ result.events[i].id = chat[k].message_id

\* the responses the message is to be paired with: those of its
\* request_id, else those whose trace_id or response_id is its message_id
PairedWith(responses, message) ==
    LET byRequest == {n \in 1..Len(responses) :
                         /\ message.request_id /= Undefined
                         /\ responses[n].request_id = message.request_id}
        byId == {n \in 1..Len(responses) :
                    /\ message.message_id /= Undefined
                    /\ \/ responses[n].trace_id = message.message_id
                       \/ responses[n].response_id = message.message_id}
    IN IF byRequest /= {} THEN byRequest ELSE byId

\* the events of response r are in the list: its agent_response, its
\* handoff when it has one, and a tool_call per tool usage
TurnEmitted(events, r) ==
    /\ \E i \in OfType(events, "agent_response") : events[i].id = r.response_id
    /\ EmitsHandoff(r) =>
          \E i \in OfType(events, "handoff") :
              events[i].id = r.response_id \o "-handoff"
    /\ \A k \in 1..Len(r.tools_used) :
          \E i \in OfType(events, "tool_call") :
              events[i].id = r.response_id \o "-tool-" \o ToString(k - 1)

\* C24: a user message is paired with the response of its request_id,
\* else with a response whose trace_id or response_id is its message_id,
\* and the handoff, tool_call and agent_response events of a paired
\* response are returned.
C24_ResponseResolved ==
    Returned =>
        \A m \in 1..Len(sessionData.chat_history) :
            LET message == sessionData.chat_history[m]
                paired == PairedWith(sessionData.agent_responses, message)
            IN (message.role = "user" /\ paired /= {}) =>
                  \E n \in paired :
                      TurnEmitted(result.events, sessionData.agent_responses[n])

\* C25: the tool_call events of a response are returned in the order of
\* its tools_used list, with or without a handoff and whatever timestamps
\* the usages carry.
C25_ToolCallsInUsageOrder ==
    Returned =>
        \A n \in 1..Len(sessionData.agent_responses) :
            LET r == sessionData.agent_responses[n]
                ev == result.events
            IN \A j, k \in 1..Len(r.tools_used) :
                  j < k =>
                     \A a, b \in OfType(ev, "tool_call") :
                        (/\ ev[a].id = r.response_id \o "-tool-" \o ToString(j - 1)
                         /\ ev[b].id = r.response_id \o "-tool-" \o ToString(k - 1))
                           => a < b

\* C26: with the cursor on a handoff event from one agent to another, the
\* edge of that pair is drawn active from the handing agent to the
\* receiving agent, also when the record of the pair was created by a
\* handoff in the opposite direction.
C26_HandoffDirectionKept ==
    (pc = "rendered" /\ flowState /= <<>>
        /\ HasCurrentEvent(result.events, currentEventIndex)
        /\ result.events[currentEventIndex + 1].type = "handoff"
        /\ OfType(result.events, "violation") = {}) =>
        LET event == result.events[currentEventIndex + 1]
            drawn == MultiAgentFlowEdges(result.events, currentEventIndex,
                                         flowState[1].connections)
        IN event.details.from_agent /= event.details.to_agent =>
              \E k \in 1..Len(drawn) :
                  /\ drawn[k].type = "outer-actual"
                  /\ drawn[k].isActive
                  /\ drawn[k].markerEnd
                  /\ drawn[k].source = event.details.from_agent
                  /\ drawn[k].target = event.details.to_agent

\* C27: the edges SessionFlowGraph draws hold at most one edge per type,
\* source and target: repeated handoffs between the same agents and
\* repeated calls of the same tool by the same agent share one edge.
C27_OneEdgePerTypeAndEnds ==
    pc = "rendered" =>
        \A e1, e2 \in GraphEdges(result.events, currentEventIndex, flow) :
            (/\ e1.type = e2.type
             /\ e1.source = e2.source
             /\ e1.target = e2.target) => e1.id = e2.id

\* C28: a detection without message_id that carries the request_id of a
\* base event is in that event's detection list and has a violation event
\* of its own there, whatever other detections the event has: findings
\* with different ids are all kept.
C28_DistinctFindingsKept ==
    Returned =>
        \A i \in 1..Len(result.events) :
            \A n \in 1..Len(sessionData.detections) :
                LET event == result.events[i]
                    d == sessionData.detections[n]
                IN (/\ event.type \in {"user_message", "agent_response"}
                    /\ d.message_id = Undefined
                    /\ d.request_id /= Undefined
                    /\ d.request_id = event.request_id) =>
                       /\ \E j \in 1..Len(event.detections) :
                             event.detections[j].id = d.id
                       /\ \E v \in OfType(result.events, "violation") :
                             /\ result.events[v].details.violation_id = d.id
                             /\ \E k \in 0..(Len(event.detections) - 1) :
                                   result.events[v].id = ViolationId(event, k)

\* the position in the returned list of the event whose card EventFeed
\* highlights (index === currentEventIndex in the list without violation
\* events), 0 when no card is highlighted
FeedCard(events, cursor) == OriginOf(events, cursor)

\* the position of the marker Timeline highlights, 0 when there is none
TimelineMarker(events, cursor) ==
    IF cursor + 1 \in 1..Len(timelineEvents(events)) THEN cursor + 1 ELSE 0

\* the position of the event SessionFlowGraph takes as current, 0 when
\* events[currentEventIndex] is undefined
GraphCurrent(events, cursor) ==
    IF HasCurrentEvent(events, cursor) THEN cursor + 1 ELSE 0

\* C29: whatever was clicked or pressed, the card highlighted in the event
\* feed, the marker highlighted in the timeline and the current event of
\* the graph are the same event of the returned list.
C29_OneCurrentEvent ==
    pc = "rendered" =>
        /\ FeedCard(result.events, currentEventIndex)
              = TimelineMarker(result.events, currentEventIndex)
        /\ TimelineMarker(result.events, currentEventIndex)
              = GraphCurrent(result.events, currentEventIndex)
        /\ \A k \in 1..Len(result.events) :
              timelineEvents(result.events)[k].id = result.events[k].id

\* C30: at most one run of performInitialization is in flight, and it is
\* the one initPromise holds; a call made while a run is in flight gets
\* that run's promise; with no run in flight initPromise is null; and
\* after a failed run initialized is false until a later run succeeds, so
\* that initialize() starts a new run.
C30_OneInitializationInFlight ==
    LET self == initializer
    IN /\ Cardinality(InFlight(self)) <= 1
       /\ InFlight(self) = IF self.initPromise = 0 THEN {} ELSE {self.initPromise}
       /\ self.lastCall.inFlight /= 0 =>
              self.lastCall.returned = self.lastCall.inFlight
       /\ \A k \in 1..Len(self.runs) :
              (/\ self.runs[k].failed
               /\ \A j \in (k + 1)..Len(self.runs) : self.runs[j].stage /= "fulfilled"
               /\ InFlight(self) = {}) =>
                  /\ ~self.initialized
                  /\ self.initPromise = 0
                  /\ Len(initialize(self).runs) = Len(self.runs) + 1
                  /\ initialize(self).initPromise = Len(self.runs) + 1

\* a call made during a run shared its promise, a refresh came in while a
\* run was in flight, a run failed and a later initialize() started the
\* run now in flight
C30_Witness ==
    /\ Len(initializer.runs) = 3
    /\ initializer.runs[1].stage = "fulfilled"
    /\ ~initializer.runs[1].failed
    /\ initializer.runs[2].failed
    /\ initializer.runs[3].stage = "names"
    /\ initializer.initPromise = 3
    /\ initializer.lastCall = [inFlight |-> 3, returned |-> 3]
    /\ agentNameCache /= <<>>

====
